---- MODULE Spec2Model ----
(***************************************************************************)
(* Model of feishubot.py: the module-level configuration gate (ENABLE),    *)
(* the TenantToken descriptor (a single cached token and its expiry), the  *)
(* FeiShuBot client (construction, attribute interception, the send        *)
(* operations) and the _post primitive every outbound call goes through.   *)
(*                                                                         *)
(* A caller (thread) runs one operation at a time.  An operation is a      *)
(* sequence of steps: reads of the token descriptor and outbound calls, in *)
(* the order Python evaluates them.  pc[t] is the step thread t is at.     *)
(* Time is a discrete clock that may advance between any two steps.        *)
(***************************************************************************)
EXTENDS Integers, Sequences, FiniteSets

\* ---- bounds of the model
MaxTime == 2
MaxTTL == 1
NThreads == 2

\* ---- values
Absent == "<unset>"
EnvVals == {Absent, "", "v"}
ServerTokens == {"T1", "T2"}
ServerMsgs == {"bad request", "no permission"}
\* the response envelopes {code, msg} of the remote service
Envelopes == {[code |-> 0, msg |-> "ok"]} \cup {[code |-> 5, msg |-> m] : m \in ServerMsgs}
TTLs == 0..MaxTTL
Threads == 1..NThreads
\* the caller of the one-caller program: the thread that imports the module
Main == CHOOSE t \in Threads : \A u \in Threads : t <= u

MethodNames == {"send_text", "send_image", "send_file", "send_audio", "send_media", "send_card"}
AttrNames == MethodNames \cup {"token", "user_id", "foo"}

VARIABLES
    mod,        \* "none" | "loading" | "ok" | "failed": state of the module import
    cfg,        \* FEISHU_APP_ID, FEISHU_APP_SECRET, FEISHU_PHONE, FEISHU_EMAIL, FEISHU_OPEN_ID
    ENABLE,     \* the gate computed at load
    cv2,        \* TRUE iff "import cv2" succeeded at load
    warned,     \* TRUE iff the load logged "feishu bot is unavailable"
    user_id,    \* bot.user_id ("" while the attribute is not set)
    lookups,    \* user-lookup requests issued for the current client instance
    token,      \* TenantToken.token
    expire_at,  \* TenantToken.expire_at
    now,        \* datetime.now()
    pc,         \* per thread: the step it is at
    opname,     \* per thread: the operation it runs (or ran last)
    plan,       \* per thread: the steps that follow the current one
    reqs,       \* per thread: the outbound requests the operation has issued, in order
    out,        \* per thread: "none" | "return" | "raise"
    val,        \* per thread: the value returned or the exception raised
    logw,       \* per thread: the warnings the operation logged
    arg,        \* per thread: the arguments of send_media (cover given, media is an opened file)
    last,       \* per thread: the envelope _post received last in this operation
    resp,       \* per thread: the auth response held by request_token
    acalls,     \* per thread: auth calls issued by the current read of the token
    seen,       \* per thread: self.token as read by the check on line 98
    eseen,      \* per thread: self.expire_at as read by the check on line 98 (-1: not read)
    chk,        \* per thread: datetime.now() as read on line 98 (-1: not read)
    st,         \* per thread: datetime.now() as read on line 95 (-1: not read)
    tk,         \* per thread: the token the descriptor returned last
    grant       \* per token: the latest expiry line 95 computed for a response carrying it

modvars == <<mod, cfg, ENABLE, cv2, warned>>
botvars == <<user_id, lookups>>
cachevars == <<token, expire_at>>
opvars == <<opname, plan, reqs, out, val, logw, arg, last>>
tokvars == <<resp, acalls, seen, eseen, chk, st, tk>>
ghostvars == <<grant>>
vars == <<mod, cfg, ENABLE, cv2, warned, user_id, lookups, token, expire_at, now,
          pc, opname, plan, reqs, out, val, logw, arg, last, resp, acalls, seen, eseen,
          chk, st, tk,
          grant>>

\* ---- pure helpers

\* Python truthiness of an environment value: None and "" are falsy.
Truthy(v) == v # Absent /\ v # ""

\* A faulty gate that forgets FEISHU_EMAIL.
ComputeEnableNoEmail(c) ==
    /\ Truthy(c.app_id)
    /\ Truthy(c.app_secret)
    /\ (Truthy(c.open_id) \/ Truthy(c.phone))

\* all((FEISHU_APP_ID, FEISHU_APP_SECRET, any((FEISHU_OPEN_ID, FEISHU_PHONE, FEISHU_EMAIL))))
ComputeEnable(c) ==
    /\ Truthy(c.app_id)
    /\ Truthy(c.app_secret)
    /\ (Truthy(c.open_id) \/ Truthy(c.phone) \/ Truthy(c.email))

\* A faulty check that refreshes while the expiry is at or after the current time.
ExpiredAtOrAfter(e, n) == e >= n

\* "self.expire_at < datetime.now()" of TenantToken.__get__
Expired(e, n) == e < n

\* A faulty check that never sees the cache as empty.
NoTokenNever(tokv) == FALSE

\* "not self.token" of TenantToken.__get__
NoToken(tokv) == tokv = ""

\* A faulty expiry that is already past when it is stored.
NewExpiryNoTTL(ttl, n) == n - 1

\* "timedelta(seconds=resp["expire"]) + datetime.now()" of request_token
NewExpiry(ttl, n) == ttl + n

\* any((FEISHU_PHONE, FEISHU_EMAIL)) of get_open_id
CanLookup(c) == Truthy(c.phone) \/ Truthy(c.email)

\* f"Message failed: {resp['msg']}" of _post
FailText(m) == <<"Message failed: ", m>>

Contains(text, m) == \E i \in 1..Len(text) : text[i] = m

Value(k, text) == [kind |-> k, text |-> text]
NoValue == Value("none", <<>>)

\* Python falsiness of a returned value: None, {} and "".
Falsy(v) == v.kind \in {"None", "empty_dict"} \/ (v.kind = "str" /\ v.text = <<"">>)

\* The first step of a plan: a "token" step starts at the descriptor's check.
Dispatch(p) == IF p = <<>> THEN "idle" ELSE IF Head(p) = "token" THEN "check_token" ELSE Head(p)

Rest(p) == IF p = <<>> THEN <<>> ELSE Tail(p)

Max(a, b) == IF a >= b THEN a ELSE b

NoResp == [tok |-> "", ttl |-> 0]
NoArg == [cover |-> FALSE, isFile |-> FALSE]
NoEnvelope == [code |-> 0, msg |-> ""]

Idle(t) == pc[t] = "idle"

\* ---- initial state: the process has started, the module is not imported yet
Init ==
    /\ mod = "none"
    /\ cfg = [app_id |-> Absent, app_secret |-> Absent, phone |-> Absent,
              email |-> Absent, open_id |-> Absent]
    /\ ENABLE = FALSE
    /\ cv2 = FALSE
    /\ warned = FALSE
    /\ user_id = ""
    /\ lookups = 0
    /\ token = ""
    /\ expire_at = 0
    /\ now = 0
    /\ pc = [t \in Threads |-> "idle"]
    /\ opname = [t \in Threads |-> "none"]
    /\ plan = [t \in Threads |-> <<>>]
    /\ reqs = [t \in Threads |-> <<>>]
    /\ out = [t \in Threads |-> "none"]
    /\ val = [t \in Threads |-> NoValue]
    /\ logw = [t \in Threads |-> <<>>]
    /\ arg = [t \in Threads |-> NoArg]
    /\ last = [t \in Threads |-> NoEnvelope]
    /\ resp = [t \in Threads |-> NoResp]
    /\ acalls = [t \in Threads |-> 0]
    /\ seen = [t \in Threads |-> ""]
    /\ eseen = [t \in Threads |-> -1]
    /\ chk = [t \in Threads |-> -1]
    /\ st = [t \in Threads |-> -1]
    /\ tk = [t \in Threads |-> ""]
    /\ grant = [k \in ServerTokens |-> -1]

\* ---- the clock
Tick ==
    /\ now < MaxTime
    /\ now' = now + 1
    /\ UNCHANGED <<modvars, botvars, cachevars, pc, opvars, tokvars, ghostvars>>

\* ---- starting and ending an operation

\* Thread t starts operation name with the given steps.
Begin(t, name, a, steps) ==
    /\ opname' = [opname EXCEPT ![t] = name]
    /\ pc' = [pc EXCEPT ![t] = Dispatch(steps)]
    /\ plan' = [plan EXCEPT ![t] = Rest(steps)]
    /\ reqs' = [reqs EXCEPT ![t] = <<>>]
    /\ out' = [out EXCEPT ![t] = "none"]
    /\ val' = [val EXCEPT ![t] = NoValue]
    /\ logw' = [logw EXCEPT ![t] = <<>>]
    /\ arg' = [arg EXCEPT ![t] = a]
    /\ last' = [last EXCEPT ![t] = NoEnvelope]
    /\ resp' = [resp EXCEPT ![t] = NoResp]
    /\ acalls' = [acalls EXCEPT ![t] = 0]
    /\ seen' = [seen EXCEPT ![t] = ""]
    /\ eseen' = [eseen EXCEPT ![t] = -1]
    /\ chk' = [chk EXCEPT ![t] = -1]
    /\ st' = [st EXCEPT ![t] = -1]
    /\ tk' = [tk EXCEPT ![t] = ""]

\* Thread t's operation ends at once: it returns v (how = "return") or raises v.
Finish(t, name, a, how, v, warnings) ==
    /\ opname' = [opname EXCEPT ![t] = name]
    /\ pc' = [pc EXCEPT ![t] = "idle"]
    /\ plan' = [plan EXCEPT ![t] = <<>>]
    /\ reqs' = [reqs EXCEPT ![t] = <<>>]
    /\ out' = [out EXCEPT ![t] = how]
    /\ val' = [val EXCEPT ![t] = v]
    /\ logw' = [logw EXCEPT ![t] = warnings]
    /\ arg' = [arg EXCEPT ![t] = a]
    /\ last' = [last EXCEPT ![t] = NoEnvelope]
    /\ resp' = [resp EXCEPT ![t] = NoResp]
    /\ acalls' = [acalls EXCEPT ![t] = 0]
    /\ seen' = [seen EXCEPT ![t] = ""]
    /\ eseen' = [eseen EXCEPT ![t] = -1]
    /\ chk' = [chk EXCEPT ![t] = -1]
    /\ st' = [st EXCEPT ![t] = -1]
    /\ tk' = [tk EXCEPT ![t] = ""]

\* A running operation goes on to its next step, or returns v after its last.
Continue(t, v) ==
    /\ pc' = [pc EXCEPT ![t] = Dispatch(plan[t])]
    /\ plan' = [plan EXCEPT ![t] = Rest(plan[t])]
    /\ out' = [out EXCEPT ![t] = IF plan[t] = <<>> THEN "return" ELSE "none"]
    /\ val' = [val EXCEPT ![t] = IF plan[t] = <<>> THEN v ELSE NoValue]

\* A faulty _post that goes on after a nonzero code instead of raising.
RaiseSwallowed(t, v) == Continue(t, v)

\* "raise ValueError(...)": the exception leaves the operation, nothing of its
\* plan is left to run.
Raise(t, v) ==
    /\ pc' = [pc EXCEPT ![t] = "idle"]
    /\ plan' = [plan EXCEPT ![t] = <<>>]
    /\ out' = [out EXCEPT ![t] = "raise"]
    /\ val' = [val EXCEPT ![t] = v]

\* An exception that leaves FeiShuBot() on line 239 leaves the import: no bot is
\* bound by it.  (After a failed reload Python keeps the previous bot; the model
\* follows the program only from the next successful load on.)
ModAfterRaise(t) == IF opname[t] = "load" THEN "failed" ELSE mod

\* ---- TenantToken.__get__ and request_token, step by step

\* line 98, left operand: "not self.token"
CheckToken(t) ==
    /\ pc[t] = "check_token"
    /\ seen' = [seen EXCEPT ![t] = token]
    /\ pc' = [pc EXCEPT ![t] = IF NoToken(token) THEN "auth" ELSE "check_exp"]
    /\ UNCHANGED <<modvars, botvars, cachevars, now, opvars, resp, acalls, eseen, chk, st, tk,
                   ghostvars>>

\* line 98, right operand: "self.expire_at < datetime.now()"
CheckExpiry(t) ==
    /\ pc[t] = "check_exp"
    /\ eseen' = [eseen EXCEPT ![t] = expire_at]
    /\ chk' = [chk EXCEPT ![t] = now]
    /\ pc' = [pc EXCEPT ![t] = IF Expired(expire_at, now) THEN "auth" ELSE "ret"]
    /\ UNCHANGED <<modvars, botvars, cachevars, now, opvars, resp, acalls, seen, st, tk,
                   ghostvars>>

\* A faulty request_token that writes the cache before _post has checked the code.
AuthPostStoresFirst(t, e, tokv, ttl) ==
    /\ pc[t] = "auth"
    /\ reqs' = [reqs EXCEPT ![t] = Append(reqs[t], "auth")]
    /\ last' = [last EXCEPT ![t] = e]
    /\ token' = tokv
    /\ IF e.code # 0
       THEN /\ Raise(t, Value("RequestError", FailText(e.msg)))
            /\ resp' = [resp EXCEPT ![t] = NoResp]
            /\ acalls' = [acalls EXCEPT ![t] = 0]
            /\ seen' = [seen EXCEPT ![t] = ""]
            /\ eseen' = [eseen EXCEPT ![t] = -1]
            /\ chk' = [chk EXCEPT ![t] = -1]
       ELSE /\ resp' = [resp EXCEPT ![t] = [tok |-> tokv, ttl |-> ttl]]
            /\ acalls' = [acalls EXCEPT ![t] = acalls[t] + 1]
            /\ pc' = [pc EXCEPT ![t] = "store_token"]
            /\ UNCHANGED <<plan, out, val, seen, eseen, chk>>
    /\ mod' = IF e.code # 0 THEN ModAfterRaise(t) ELSE mod
    /\ UNCHANGED <<cfg, ENABLE, cv2, warned, botvars, expire_at, now, opname, logw, arg, st,
                   tk, ghostvars>>

\* request_token lines 88-93 through _post (lines 53-61): the auth request and its
\* envelope e, which carries tokv and ttl when its code is 0.  A nonzero code
\* raises out of __get__ before line 94.
AuthPost(t, e, tokv, ttl) ==
    /\ pc[t] = "auth"
    /\ reqs' = [reqs EXCEPT ![t] = Append(reqs[t], "auth")]
    /\ last' = [last EXCEPT ![t] = e]
    /\ IF e.code # 0
       THEN /\ Raise(t, Value("RequestError", FailText(e.msg)))
            /\ resp' = [resp EXCEPT ![t] = NoResp]
            /\ acalls' = [acalls EXCEPT ![t] = 0]
            /\ seen' = [seen EXCEPT ![t] = ""]
            /\ eseen' = [eseen EXCEPT ![t] = -1]
            /\ chk' = [chk EXCEPT ![t] = -1]
       ELSE /\ resp' = [resp EXCEPT ![t] = [tok |-> tokv, ttl |-> ttl]]
            /\ acalls' = [acalls EXCEPT ![t] = acalls[t] + 1]
            /\ pc' = [pc EXCEPT ![t] = "store_token"]
            /\ UNCHANGED <<plan, out, val, seen, eseen, chk>>
    /\ mod' = IF e.code # 0 THEN ModAfterRaise(t) ELSE mod
    /\ UNCHANGED <<cfg, ENABLE, cv2, warned, botvars, cachevars, now, opname, logw, arg, st,
                   tk, ghostvars>>

\* line 94: self.token = resp["tenant_access_token"]
StoreToken(t) ==
    /\ pc[t] = "store_token"
    /\ token' = resp[t].tok
    /\ pc' = [pc EXCEPT ![t] = "store_exp"]
    /\ UNCHANGED <<modvars, botvars, expire_at, now, opvars, tokvars, ghostvars>>

\* line 95: self.expire_at = timedelta(seconds=resp["expire"]) + datetime.now()
StoreExpiry(t) ==
    /\ pc[t] = "store_exp"
    /\ expire_at' = NewExpiry(resp[t].ttl, now)
    /\ st' = [st EXCEPT ![t] = now]
    /\ grant' = [grant EXCEPT ![resp[t].tok] = Max(@, NewExpiry(resp[t].ttl, now))]
    /\ pc' = [pc EXCEPT ![t] = "ret"]
    /\ UNCHANGED <<modvars, botvars, token, now, opvars, resp, acalls, seen, eseen, chk, tk>>

\* line 100: return self.token; the frame of __get__ and its locals are gone
ReturnToken(t) ==
    /\ pc[t] = "ret"
    /\ tk' = [tk EXCEPT ![t] = token]
    /\ Continue(t, Value("str", <<token>>))
    /\ resp' = [resp EXCEPT ![t] = NoResp]
    /\ acalls' = [acalls EXCEPT ![t] = 0]
    /\ seen' = [seen EXCEPT ![t] = ""]
    /\ eseen' = [eseen EXCEPT ![t] = -1]
    /\ chk' = [chk EXCEPT ![t] = -1]
    /\ st' = [st EXCEPT ![t] = -1]
    /\ UNCHANGED <<modvars, botvars, cachevars, now, opname, reqs, logw, arg, last, ghostvars>>

\* ---- reading bot.token

\* FeiShuBot.__getattribute__("token"): the descriptor when enabled, "" when disabled
GetToken(t) ==
    /\ mod = "ok"
    /\ Idle(t)
    /\ IF ENABLE
       THEN Begin(t, "get_token", NoArg, <<"token">>)
       ELSE Finish(t, "get_token", NoArg, "return", Value("str", <<"">>), <<>>)
    /\ UNCHANGED <<modvars, botvars, cachevars, now, ghostvars>>

\* ---- import of the module (lines 15-45, 107, 239) and FeiShuBot.__init__

\* The environment holds env and "import cv2" succeeds iff c2.  The class body
\* makes a new TenantToken; line 239 constructs the client.
Load(t, env, c2) ==
    /\ mod # "loading"
    /\ \A u \in Threads : Idle(u)
    /\ cfg' = env
    /\ cv2' = c2
    /\ ENABLE' = ComputeEnable(env)
    /\ warned' = ~ComputeEnable(env)
    /\ token' = ""
    /\ expire_at' = now
    /\ lookups' = 0
    /\ IF ~ComputeEnable(env)
       THEN /\ mod' = "ok"
            /\ user_id' = ""
            /\ Finish(t, "load", NoArg, "return", Value("None", <<>>), <<>>)
       ELSE IF Truthy(env.open_id)
       THEN /\ mod' = "ok"
            /\ user_id' = env.open_id
            /\ Finish(t, "load", NoArg, "return", Value("None", <<>>), <<>>)
       ELSE /\ mod' = "loading"
            /\ user_id' = ""
            /\ Begin(t, "load", NoArg, <<"token", "lookup">>)
    /\ grant' = [k \in ServerTokens |-> -1]
    /\ UNCHANGED now

\* get_open_id (lines 64-79), entered with the token already read; uid is the
\* user_id of the first record of the response that has one ("" if none has).
Lookup(t, e, uid) ==
    /\ pc[t] = "lookup"
    /\ IF ~CanLookup(cfg)
       THEN /\ Raise(t, Value("ConfigError", <<"FEISHU_PHONE or FEISHU_EMAIL must be set">>))
            /\ mod' = ModAfterRaise(t)
            /\ UNCHANGED <<reqs, last, botvars>>
       ELSE /\ reqs' = [reqs EXCEPT ![t] = Append(reqs[t], "lookup")]
            /\ last' = [last EXCEPT ![t] = e]
            /\ lookups' = lookups + 1
            /\ IF e.code # 0
               THEN /\ Raise(t, Value("RequestError", FailText(e.msg)))
                    /\ mod' = ModAfterRaise(t)
                    /\ UNCHANGED user_id
               ELSE IF uid # ""
               THEN /\ user_id' = uid
                    /\ mod' = "ok"
                    /\ Continue(t, Value("None", <<>>))
               ELSE /\ Raise(t, Value("LookupError", <<"Query open_id failed: no user_id found.">>))
                    /\ mod' = ModAfterRaise(t)
                    /\ UNCHANGED user_id
    /\ UNCHANGED <<cfg, ENABLE, cv2, warned, cachevars, now, opname, logw, arg, tokvars,
                   ghostvars>>

\* ---- _post_file and _send_message, entered with the token already read

\* _post_file (lines 139-155): the upload request and its response envelope
Upload(t, e) ==
    /\ pc[t] = "upload"
    /\ reqs' = [reqs EXCEPT ![t] = Append(reqs[t], "upload")]
    /\ last' = [last EXCEPT ![t] = e]
    /\ IF e.code # 0
       THEN Raise(t, Value("RequestError", FailText(e.msg)))
       ELSE Continue(t, Value("dict", <<>>))
    /\ UNCHANGED <<modvars, botvars, cachevars, now, opname, logw, arg, tokvars, ghostvars>>

\* _send_message (lines 126-137): the send request and its response envelope;
\* send_card drops the response (line 236) and returns None.
Send(t, e) ==
    /\ pc[t] = "send"
    /\ reqs' = [reqs EXCEPT ![t] = Append(reqs[t], "send")]
    /\ last' = [last EXCEPT ![t] = e]
    /\ IF e.code # 0
       THEN Raise(t, Value("RequestError", FailText(e.msg)))
       ELSE Continue(t, IF opname[t] = "send_card" THEN Value("None", <<>>)
                                                   ELSE Value("dict", <<>>))
    /\ UNCHANGED <<modvars, botvars, cachevars, now, opname, logw, arg, tokvars, ghostvars>>

\* ---- FeiShuBot.__getattribute__ when disabled (lines 118-124)

\* logger.warning(f"FeiShuBot is disabled, {__name} is unavailable.")
DisabledWarning(name) == <<"FeiShuBot is disabled, ", name, " is unavailable.">>

\* A faulty wrap that returns None without logging.
DisabledSilent(t, name, a) ==
    Finish(t, name, a, "return", Value("None", <<>>), <<>>)

\* bot.<name>(...) with ENABLE false: "token" is the str "" (calling it raises
\* TypeError), every other name is wrap, which logs and returns None.
Disabled(t, name, a) ==
    IF name = "token"
    THEN Finish(t, name, a, "raise", Value("TypeError", <<"'str' object is not callable">>), <<>>)
    ELSE Finish(t, name, a, "return", Value("None", <<>>), <<DisabledWarning(name)>>)

\* ---- the public operations: bot.<name>(...)

Ready(t) == mod = "ok" /\ Idle(t)

\* A faulty send_text that resolves the recipient again.
SendTextResolves(t) ==
    /\ Ready(t)
    /\ IF ENABLE THEN Begin(t, "send_text", NoArg, <<"token", "lookup", "token", "send">>)
                 ELSE Disabled(t, "send_text", NoArg)
    /\ UNCHANGED <<modvars, botvars, cachevars, now, ghostvars>>

\* send_text (lines 157-163)
SendText(t) ==
    /\ Ready(t)
    /\ IF ENABLE THEN Begin(t, "send_text", NoArg, <<"token", "send">>)
                 ELSE Disabled(t, "send_text", NoArg)
    /\ UNCHANGED <<modvars, botvars, cachevars, now, ghostvars>>

\* send_image (lines 165-171): _post_file is evaluated before _send_message
SendImage(t) ==
    /\ Ready(t)
    /\ IF ENABLE THEN Begin(t, "send_image", NoArg, <<"token", "upload", "token", "send">>)
                 ELSE Disabled(t, "send_image", NoArg)
    /\ UNCHANGED <<modvars, botvars, cachevars, now, ghostvars>>

\* send_file (lines 173-180)
SendFile(t) ==
    /\ Ready(t)
    /\ IF ENABLE THEN Begin(t, "send_file", NoArg, <<"token", "upload", "token", "send">>)
                 ELSE Disabled(t, "send_file", NoArg)
    /\ UNCHANGED <<modvars, botvars, cachevars, now, ghostvars>>

\* send_audio (lines 182-192)
SendAudio(t) ==
    /\ Ready(t)
    /\ IF ENABLE THEN Begin(t, "send_audio", NoArg, <<"token", "upload", "token", "send">>)
                 ELSE Disabled(t, "send_audio", NoArg)
    /\ UNCHANGED <<modvars, botvars, cachevars, now, ghostvars>>

\* "if cv2 is None" on line 202
MediaSoftPath(capability, cover) == ~capability

\* send_media (lines 194-212): a.cover is TRUE iff a non-empty cover is passed,
\* a.isFile is TRUE iff media is a BufferedReader.
SendMedia(t, a) ==
    /\ Ready(t)
    /\ IF ~ENABLE
       THEN Disabled(t, "send_media", a)
       ELSE IF MediaSoftPath(cv2, a.cover)
       THEN Finish(t, "send_media", a, "return", Value("empty_dict", <<>>),
                   <<<<"opencv-python is not installed, send_media is unavailable">>>>)
       ELSE IF ~a.cover /\ ~a.isFile
       THEN Finish(t, "send_media", a, "raise",
                   Value("ValueError", <<"Cover must be set when media is not an opened file">>),
                   <<>>)
       ELSE Begin(t, "send_media", a,
                  <<"token", "upload", "token", "upload", "token", "send">>)
    /\ UNCHANGED <<modvars, botvars, cachevars, now, ghostvars>>

\* send_card (lines 214-236)
SendCard(t) ==
    /\ Ready(t)
    /\ IF ENABLE THEN Begin(t, "send_card", NoArg, <<"token", "send">>)
                 ELSE Disabled(t, "send_card", NoArg)
    /\ UNCHANGED <<modvars, botvars, cachevars, now, ghostvars>>

\* bot.<name>(...) for a name that is no method: "token", "user_id" or a name the
\* class does not define.  Enabled, object.__getattribute__ decides.
CallOther(t, name) ==
    /\ Ready(t)
    /\ name \in AttrNames \ MethodNames
    /\ IF ~ENABLE
       THEN Disabled(t, name, NoArg)
       ELSE IF name = "token"
       THEN Begin(t, name, NoArg, <<"token", "call_str">>)
       ELSE IF name = "user_id"
       THEN Finish(t, name, NoArg, "raise",
                   Value("TypeError", <<"'str' object is not callable">>), <<>>)
       ELSE Finish(t, name, NoArg, "raise", Value("AttributeError", <<name>>), <<>>)
    /\ UNCHANGED <<modvars, botvars, cachevars, now, ghostvars>>

\* calling the str that bot.token evaluated to
CallStr(t) ==
    /\ pc[t] = "call_str"
    /\ Raise(t, Value("TypeError", <<"'str' object is not callable">>))
    /\ UNCHANGED <<modvars, botvars, cachevars, now, opname, reqs, logw, arg, last, tokvars,
                   ghostvars>>

\* ---- the program with one caller

EnvNames == {"app_id", "app_secret", "phone", "email", "open_id"}
AllEnvs == [EnvNames -> EnvVals]
\* the environments with the secret set, every other variable set or unset, and
\* phone and email unset when open_id is set (get_open_id does not run then)
SetOrUnsetEnvs ==
    {env \in [EnvNames -> {Absent, "v"}] :
        /\ env.app_secret = "v"
        /\ env.open_id = "v" => (env.phone = Absent /\ env.email = Absent)}
MediaArgs == [cover : BOOLEAN, isFile : BOOLEAN]
UserIds == {"", "u1"}

\* the steps of TenantToken.__get__
TokenStep(t) ==
    \/ CheckToken(t)
    \/ CheckExpiry(t)
    \/ \E e \in Envelopes, tokv \in ServerTokens, ttl \in TTLs : AuthPost(t, e, tokv, ttl)
    \/ StoreToken(t)
    \/ StoreExpiry(t)
    \/ ReturnToken(t)

\* every step of a caller but the import
Step(t) ==
    \/ GetToken(t)
    \/ SendText(t)
    \/ SendImage(t)
    \/ SendFile(t)
    \/ SendAudio(t)
    \/ \E a \in MediaArgs : SendMedia(t, a)
    \/ SendCard(t)
    \/ \E name \in AttrNames : CallOther(t, name)
    \/ CallStr(t)
    \/ TokenStep(t)
    \/ \E e \in Envelopes, uid \in UserIds : Lookup(t, e, uid)
    \/ \E e \in Envelopes : Upload(t, e)
    \/ \E e \in Envelopes : Send(t, e)

Next ==
    \/ \E env \in SetOrUnsetEnvs, c2 \in BOOLEAN : Load(Main, env, c2)
    \/ Step(Main)
    \/ Tick

Spec == Init /\ [][Next]_vars

\* ---- imports and reloads only, over every environment
NextCfg ==
    \/ \E env \in AllEnvs, c2 \in BOOLEAN : Load(Main, env, c2)
    \/ CheckToken(Main)
    \/ \E e \in Envelopes, tokv \in ServerTokens, ttl \in TTLs : AuthPost(Main, e, tokv, ttl)
    \/ StoreToken(Main)
    \/ StoreExpiry(Main)
    \/ ReturnToken(Main)
    \/ \E e \in Envelopes, uid \in UserIds : Lookup(Main, e, uid)
    \/ Tick

SpecCfg == Init /\ [][NextCfg]_vars

\* ---- concurrent readers of bot.token on a loaded, enabled module: the state
\* Load leaves when FEISHU_OPEN_ID is set
InitConc ==
    /\ mod = "ok"
    /\ cfg = [app_id |-> "v", app_secret |-> "v", phone |-> Absent,
              email |-> Absent, open_id |-> "v"]
    /\ ENABLE = TRUE
    /\ cv2 = FALSE
    /\ warned = FALSE
    /\ user_id = "v"
    /\ lookups = 0
    /\ token = ""
    /\ expire_at = 0
    /\ now = 0
    /\ pc = [t \in Threads |-> "idle"]
    /\ opname = [t \in Threads |-> IF t = Main THEN "load" ELSE "none"]
    /\ plan = [t \in Threads |-> <<>>]
    /\ reqs = [t \in Threads |-> <<>>]
    /\ out = [t \in Threads |-> IF t = Main THEN "return" ELSE "none"]
    /\ val = [t \in Threads |-> IF t = Main THEN Value("None", <<>>) ELSE NoValue]
    /\ logw = [t \in Threads |-> <<>>]
    /\ arg = [t \in Threads |-> NoArg]
    /\ last = [t \in Threads |-> NoEnvelope]
    /\ resp = [t \in Threads |-> NoResp]
    /\ acalls = [t \in Threads |-> 0]
    /\ seen = [t \in Threads |-> ""]
    /\ eseen = [t \in Threads |-> -1]
    /\ chk = [t \in Threads |-> -1]
    /\ st = [t \in Threads |-> -1]
    /\ tk = [t \in Threads |-> ""]
    /\ grant = [k \in ServerTokens |-> -1]

NextConc ==
    \/ \E t \in Threads : GetToken(t)
    \/ \E t \in Threads : TokenStep(t)
    \/ Tick

SpecConc == InitConc /\ [][NextConc]_vars

\* ======================================================================
\* Properties
\* ======================================================================

HasRequest(t, kind) == \E i \in 1..Len(reqs[t]) : reqs[t][i] = kind
LastRequest(t) == IF reqs[t] = <<>> THEN "" ELSE reqs[t][Len(reqs[t])]
Present(v) == v \notin {Absent, ""}

\* ---- C1
\* C1: with one caller, a read of the token issues at most one auth call; a read
\* that finds no token cached issues exactly one; a read made before the cached
\* expiry issues none and returns the token it found cached; a read made after
\* the cached expiry issues exactly one.  (A read reaches "ret" only if every
\* auth response it got had code 0.)
C1_TokenRefresh ==
    \A t \in Threads :
        /\ acalls[t] <= 1
        /\ pc[t] = "ret" =>
            /\ seen[t] = "" => acalls[t] = 1
            /\ (seen[t] # "" /\ chk[t] < eseen[t]) => (acalls[t] = 0 /\ token = seen[t])
            /\ (seen[t] # "" /\ chk[t] > eseen[t]) => acalls[t] = 1

\* send_image: the first read refreshed, the second read hits the cache
C1_Witness ==
    /\ pc[Main] = "ret"
    /\ opname[Main] = "send_image"
    /\ reqs[Main] = <<"auth", "upload">>
    /\ seen[Main] # ""
    /\ chk[Main] < eseen[Main]
    /\ acalls[Main] = 0

\* ---- C4
\* C4 as stated: whenever the descriptor is about to return, the token is
\* non-empty and the current time is before the stored expiry.
C4_Original ==
    \A t \in Threads : pc[t] = "ret" => (token # "" /\ now < expire_at)

\* C4 amended: whenever the descriptor is about to return, the token is a
\* non-empty token of the server; if it comes from the cache the time read by
\* the check was at or before the stored expiry, and if it was just fetched it is
\* the fetched token and the stored expiry is not before the time of the store.
C4_ValidAtCheck ==
    \A t \in Threads : pc[t] = "ret" =>
        /\ token \in ServerTokens
        /\ acalls[t] = 0 => chk[t] <= expire_at
        /\ acalls[t] = 1 => (token = resp[t].tok /\ st[t] <= expire_at)

\* a cached token returned at the very instant of its expiry
C4_Witness ==
    /\ pc[Main] = "ret"
    /\ acalls[Main] = 0
    /\ chk[Main] = now
    /\ now = expire_at

\* ---- C8
\* C8 as stated: the auth endpoint is called exactly when no token is cached or
\* the cached expiry is at or after the current time.
C8_Original ==
    \A t \in Threads : pc[t] = "ret" =>
        ((acalls[t] = 1) <=> (seen[t] = "" \/ eseen[t] >= chk[t]))

\* C8 amended: the auth endpoint is called exactly when no token is cached or
\* the cached expiry is strictly before the current time; the returned token is
\* then stored with expiry = (time of the store) + TTL; in every other case the
\* cached token is returned with token and expiry unchanged and no auth call.
C8_RefreshWhenExpired ==
    \A t \in Threads :
        /\ pc[t] \in {"auth", "store_token", "store_exp"} =>
            (seen[t] = "" \/ eseen[t] < chk[t])
        /\ pc[t] = "ret" =>
            /\ (acalls[t] = 1) <=> (seen[t] = "" \/ eseen[t] < chk[t])
            /\ acalls[t] = 1 => (token = resp[t].tok /\ expire_at = st[t] + resp[t].ttl)
            /\ acalls[t] = 0 => (token = seen[t] /\ expire_at = eseen[t])

\* a cached token whose expiry is after the current time is returned, no call
C8_Witness ==
    /\ pc[Main] = "ret"
    /\ seen[Main] # ""
    /\ eseen[Main] > chk[Main]
    /\ acalls[Main] = 0

\* ---- C10
AuthFailed(t) ==
    /\ Idle(t)
    /\ out[t] = "raise"
    /\ LastRequest(t) = "auth"
    /\ last[t].code # 0

\* C10: the step in which an auth call answers with a nonzero code leaves the
\* cached token and expiry as they were, and afterwards the cache still asks for
\* a refresh (no token, or expiry before now), so the next read calls auth again.
C10_FailedRefreshKeepsCache ==
    /\ [](\A t \in Threads : AuthFailed(t) => (token = "" \/ expire_at < now))
    /\ [][\A t \in Threads :
            (pc[t] = "auth" /\ out'[t] = "raise") =>
                (token' = token /\ expire_at' = expire_at)]_vars

\* a refresh of an expired token failed: the stale token is still in the cache
C10_Witness ==
    /\ AuthFailed(Main)
    /\ token # ""
    /\ expire_at < now

\* ---- C5
\* C5: an outbound call (auth, lookup, upload, send) whose envelope has a nonzero
\* code ends the operation at that call: it raises a RequestError whose message
\* contains the server's msg, and nothing of the operation is left to run (no
\* retry, no further request).
C5_FailedCallRaises ==
    \A t \in Threads : last[t].code # 0 =>
        /\ Idle(t)
        /\ plan[t] = <<>>
        /\ out[t] = "raise"
        /\ val[t].kind = "RequestError"
        /\ Contains(val[t].text, last[t].msg)
        /\ reqs[t] # <<>>

\* send_image: the upload failed and no send request followed
C5_Witness ==
    /\ opname[Main] = "send_image"
    /\ last[Main].code # 0
    /\ reqs[Main] = <<"auth", "upload">>
    /\ out[Main] = "raise"

\* ---- C6
\* the client was constructed with neither open_id nor phone nor email
BareConstruction ==
    /\ mod # "none"
    /\ opname[Main] = "load"
    /\ Idle(Main)
    /\ ~Present(cfg.open_id)
    /\ ~Present(cfg.phone)
    /\ ~Present(cfg.email)

LookupOnlyInConstruction ==
    /\ lookups <= 1
    /\ \A t \in Threads : HasRequest(t, "lookup") =>
        /\ opname[t] = "load"
        /\ ~Present(cfg.open_id)
        /\ Present(cfg.phone) \/ Present(cfg.email)

NoRequestEver ==
    /\ lookups = 0
    /\ token = ""
    /\ \A t \in Threads : reqs[t] = <<>>

\* the operation logged exactly one warning, and it names the operation
WarnedNaming(t) == Len(logw[t]) = 1 /\ Contains(logw[t][1], opname[t])

\* C2 as stated: with the gate off, no request is ever issued, no call raises,
\* and every call of any attribute name returns a falsy value after logging a
\* warning that names it.
C2_Original ==
    (mod = "ok" /\ ~ENABLE) =>
        /\ NoRequestEver
        /\ \A t \in Threads :
            /\ out[t] # "raise"
            /\ opname[t] \in AttrNames => (Falsy(val[t]) /\ WarnedNaming(t))

\* C2 amended: with the gate off, no request is ever issued; every call of an
\* attribute name other than "token" returns a falsy value after logging a
\* warning that names it; bot.token is "" (read without a warning), so calling
\* it raises TypeError.
C2_DisabledNoOp ==
    (mod = "ok" /\ ~ENABLE) =>
        /\ NoRequestEver
        /\ user_id = ""
        /\ \A t \in Threads :
            /\ opname[t] \in AttrNames \ {"token"} =>
                (out[t] = "return" /\ Falsy(val[t]) /\ WarnedNaming(t))
            /\ opname[t] = "token" =>
                (out[t] = "raise" /\ val[t].kind = "TypeError" /\ logw[t] = <<>>)
            /\ opname[t] = "get_token" =>
                (out[t] = "return" /\ val[t] = Value("str", <<"">>) /\ logw[t] = <<>>)
            /\ opname[t] = "load" => out[t] = "return"

\* a disabled send_media call has returned
C2_Witness ==
    /\ mod = "ok"
    /\ ~ENABLE
    /\ opname[Main] = "send_media"
    /\ out[Main] = "return"
    /\ WarnedNaming(Main)

\* ---- C9
SoftPath(t) ==
    /\ Idle(t)
    /\ out[t] = "return"
    /\ val[t].kind = "empty_dict"
    /\ reqs[t] = <<>>
    /\ Len(logw[t]) = 1

\* C9: on an enabled client send_media takes the soft path (warning, empty
\* result, no request) exactly when no cover is supplied and the capability is
\* absent; with a cover supplied it never takes it.
C9_SoftPathOnlyWhenDeriving ==
    \A t \in Threads :
        (mod = "ok" /\ ENABLE /\ opname[t] = "send_media") =>
            (SoftPath(t) <=> (~arg[t].cover /\ ~cv2))

\* ---- C3
\* C3: after every load, ENABLE is true iff app_id and app_secret are both
\* present (set and non-empty) and at least one of open_id, phone, email is, in
\* the configuration of that load, and the startup warning was logged iff ENABLE
\* is false.
C3_EnableIffConfigured ==
    mod # "none" =>
        /\ ENABLE <=> (/\ Present(cfg.app_id)
                       /\ Present(cfg.app_secret)
                       /\ \E f \in {"open_id", "phone", "email"} : Present(cfg[f]))
        /\ warned <=> ~ENABLE

\* a load with only email as recipient (phone empty, open_id unset) is enabled
C3_Witness ==
    /\ mod = "ok"
    /\ cfg.app_id = "v"
    /\ cfg.app_secret = "v"
    /\ cfg.open_id = Absent
    /\ cfg.phone = ""
    /\ cfg.email = "v"
    /\ ENABLE
    /\ ~warned

\* ---- C7
\* a refresh that carries token k has written it or is about to, and has not
\* computed its expiry yet
InFlight(k) ==
    \E u \in Threads : pc[u] \in {"store_token", "store_exp"} /\ resp[u].tok = k

\* C7: with concurrent readers, a token about to be returned is a whole
\* non-empty token of the server, and a token served from the cache passed the
\* check at a time not after the latest expiry computed for a response that
\* carried it.
C7_HarmlessRefresh ==
    \A t \in Threads : pc[t] = "ret" =>
        /\ token \in ServerTokens
        /\ (acalls[t] = 0 /\ ~InFlight(token)) => chk[t] <= grant[token]

====
